---- MODULE Spec2Model ----
(***************************************************************************)
(* TermChess training layer: the board encoder (board_encoder.py) and the  *)
(* ChessNet residual network (model.py).                                   *)
(*                                                                         *)
(* Spec     : a python-chess Board driven by push(), read by encode_board. *)
(* NetSpec  : a ChessNet instance driven by eval()/train()/forward().      *)
(***************************************************************************)
EXTENDS Integers, Sequences, FiniteSets, TLC

\* ------------------------------------------------------------------ bounds
\* Longest move sequence pushed on a board.
MaxPly == 2
\* Largest num_blocks and num_filters a ChessNet is constructed with.
MaxBlocks == 2
MaxFilters == 2
\* Largest batch size and number of distinct input batches.
MaxBatch == 2
MaxInputs == 2
\* Most forward calls and optimizer steps on one network.
MaxCalls == 2
MaxSteps == 1
MaxThreads == 2

\* ---------------------------------------------------- board_encoder constants
NUM_CHANNELS == 18
WHITE_PIECE_OFFSET == 0
BLACK_PIECE_OFFSET == 6
SIDE_TO_MOVE_CHANNEL == 12
CASTLING_WK_CHANNEL == 13
CASTLING_WQ_CHANNEL == 14
CASTLING_BK_CHANNEL == 15
CASTLING_BQ_CHANNEL == 16
EN_PASSANT_CHANNEL == 17

\* ------------------------------------------------------------ model constants
DEFAULT_NUM_BLOCKS == 6
DEFAULT_NUM_FILTERS == 128
POLICY_OUTPUT_SIZE == 4096
BOARD_SIZE == 8

\* ------------------------------------------------- python-chess vocabulary
\* chess.WHITE is True, chess.BLACK is False.
WHITE == TRUE
BLACK == FALSE
PAWN == 1
KNIGHT == 2
BISHOP == 3
ROOK == 4
QUEEN == 5
KING == 6
PIECE_TYPES == <<PAWN, KNIGHT, BISHOP, ROOK, QUEEN, KING>>

\* chess.SQUARES: a1 = 0, b1 = 1, ..., h8 = 63.
SQUARES == 0..63
\* board.piece_at(square) is None / board.ep_square is None.
NoPiece == [piece_type |-> 0, color |-> FALSE]
NoSquare == -1
A1 == 0
E1 == 4
H1 == 7
A8 == 56
E8 == 60
H8 == 63

square_rank(square) == square \div 8
square_file(square) == square % 8
square(file, rank) == rank * 8 + file

Piece(piece_type, color) == [piece_type |-> piece_type, color |-> color]

VARIABLES
    fen,       \* the FEN the board was constructed from
    board,     \* the chess.Board: pieces, turn, castling_rights, ep_square
    ply,       \* len(board.move_stack)
    last,      \* board.peek(), with what the board held when it was pushed
    encoded,   \* the array the latest encode_board(board) call returned
    encPly,    \* len(board.move_stack) at that call, -1 before the first
    board2,    \* a second Board, constructed from a FEN and never moved
    encoded2,  \* the array encode_board(board2) returned
    net,       \* the ChessNet instance
    out,       \* what the latest forward call returned
    threads,   \* the forward call each caller thread has in flight
    before,    \* what the forward call before the latest returned
    resblock,  \* a ResidualBlock used on its own, and what its latest call returned
    made,      \* the constructor call that made the network, and what it was given
    tensor     \* what the latest encode_board_tensor(board, device) call returned

vars == <<fen, board, ply, last, encoded, encPly, board2, encoded2, net, out, threads,
          before, resblock, made, tensor>>

\* ------------------------------------------------------- chess.Board(fen)
\* A FEN piece symbol: upper case is White, "." an empty square.
SymbolPiece(symbol) ==
    CASE symbol = "P" -> Piece(PAWN, WHITE)
      [] symbol = "N" -> Piece(KNIGHT, WHITE)
      [] symbol = "B" -> Piece(BISHOP, WHITE)
      [] symbol = "R" -> Piece(ROOK, WHITE)
      [] symbol = "Q" -> Piece(QUEEN, WHITE)
      [] symbol = "K" -> Piece(KING, WHITE)
      [] symbol = "p" -> Piece(PAWN, BLACK)
      [] symbol = "n" -> Piece(KNIGHT, BLACK)
      [] symbol = "b" -> Piece(BISHOP, BLACK)
      [] symbol = "r" -> Piece(ROOK, BLACK)
      [] symbol = "q" -> Piece(QUEEN, BLACK)
      [] symbol = "k" -> Piece(KING, BLACK)
      [] OTHER -> NoPiece

\* The castling field of a FEN: the rook square each letter stands for.
FenCastling(flags) ==
    (IF "K" \in flags THEN {H1} ELSE {}) \cup (IF "Q" \in flags THEN {A1} ELSE {})
        \cup (IF "k" \in flags THEN {H8} ELSE {}) \cup (IF "q" \in flags THEN {A8} ELSE {})

\* chess.Board(fen): the placement field lists rank 8 first, each rank from file a.
BoardFromFen(f) ==
    [pieces |-> [s \in SQUARES |->
                    SymbolPiece(f.ranks[8 - square_rank(s)][square_file(s) + 1])],
     turn |-> f.turn,
     castling_rights |-> FenCastling(f.castling),
     ep_square |-> f.ep]

EmptyRank == <<".", ".", ".", ".", ".", ".", ".", ".">>

\* chess.Board(): rnbqkbnr/pppppppp/8/8/8/8/PPPPPPPP/RNBQKBNR w KQkq - 0 1
StartingFen ==
    [ranks |-> << <<"r", "n", "b", "q", "k", "b", "n", "r">>,
                  <<"p", "p", "p", "p", "p", "p", "p", "p">>,
                  EmptyRank, EmptyRank, EmptyRank, EmptyRank,
                  <<"P", "P", "P", "P", "P", "P", "P", "P">>,
                  <<"R", "N", "B", "Q", "K", "B", "N", "R">> >>,
     turn |-> WHITE, castling |-> {"K", "Q", "k", "q"}, ep |-> NoSquare]

\* r3k2r/p6p/8/8/8/8/P6P/R3K2R w KQkq - 0 1
CastlingFen ==
    [ranks |-> << <<"r", ".", ".", ".", "k", ".", ".", "r">>,
                  <<"p", ".", ".", ".", ".", ".", ".", "p">>,
                  EmptyRank, EmptyRank, EmptyRank, EmptyRank,
                  <<"P", ".", ".", ".", ".", ".", ".", "P">>,
                  <<"R", ".", ".", ".", "K", ".", ".", "R">> >>,
     turn |-> WHITE, castling |-> {"K", "Q", "k", "q"}, ep |-> NoSquare]

\* chess.Board.empty(): 8/8/8/8/8/8/8/8 w - - 0 1
EmptyFen ==
    [ranks |-> <<EmptyRank, EmptyRank, EmptyRank, EmptyRank,
                 EmptyRank, EmptyRank, EmptyRank, EmptyRank>>,
     turn |-> WHITE, castling |-> {}, ep |-> NoSquare]

\* 4k3/8/8/8/8/8/8/4K3 w - - 0 1
KingsOnlyFen ==
    [ranks |-> << <<".", ".", ".", ".", "k", ".", ".", ".">>,
                  EmptyRank, EmptyRank, EmptyRank, EmptyRank, EmptyRank, EmptyRank,
                  <<".", ".", ".", ".", "K", ".", ".", ".">> >>,
     turn |-> WHITE, castling |-> {}, ep |-> NoSquare]

\* QQ2k3/8/8/8/8/8/8/4K3 w - - 0 1
MultipleQueensFen ==
    [ranks |-> << <<"Q", "Q", ".", ".", "k", ".", ".", ".">>,
                  EmptyRank, EmptyRank, EmptyRank, EmptyRank, EmptyRank, EmptyRank,
                  <<".", ".", ".", ".", "K", ".", ".", ".">> >>,
     turn |-> WHITE, castling |-> {}, ep |-> NoSquare]

\* 4k3/P2p1p2/8/4P3/8/8/8/4K3 b - - 0 1: a double step beside the e5 pawn can be
\* captured en passant, and the a7 pawn promotes.
EnPassantFen ==
    [ranks |-> << <<".", ".", ".", ".", "k", ".", ".", ".">>,
                  <<"P", ".", ".", "p", ".", "p", ".", ".">>,
                  EmptyRank,
                  <<".", ".", ".", ".", "P", ".", ".", ".">>,
                  EmptyRank, EmptyRank, EmptyRank,
                  <<".", ".", ".", ".", "K", ".", ".", ".">> >>,
     turn |-> BLACK, castling |-> {}, ep |-> NoSquare]

\* 4k3/8/8/8/7P/8/8/4K3 b - h3 0 1: an en-passant target no pawn can capture on.
LoneTargetFen ==
    [ranks |-> << <<".", ".", ".", ".", "k", ".", ".", ".">>,
                  EmptyRank, EmptyRank, EmptyRank,
                  <<".", ".", ".", ".", ".", ".", ".", "P">>,
                  EmptyRank, EmptyRank,
                  <<".", ".", ".", ".", "K", ".", ".", ".">> >>,
     turn |-> BLACK, castling |-> {}, ep |-> square(7, 2)]

\* 4k3/P4p2/8/3pP3/8/8/8/4K3 w - d6 0 2: EnPassantFen after d7-d5.
AfterDoubleStepFen ==
    [ranks |-> << <<".", ".", ".", ".", "k", ".", ".", ".">>,
                  <<"P", ".", ".", ".", ".", "p", ".", ".">>,
                  EmptyRank,
                  <<".", ".", ".", "p", "P", ".", ".", ".">>,
                  EmptyRank, EmptyRank, EmptyRank,
                  <<".", ".", ".", ".", "K", ".", ".", ".">> >>,
     turn |-> WHITE, castling |-> {}, ep |-> square(3, 5)]

\* 4k3/P4p2/8/3pP3/8/8/8/4K3 w KQkq d6 0 2: the same with castling letters that no
\* rook on the board backs.
AfterDoubleStepCastlingFen ==
    [AfterDoubleStepFen EXCEPT !.castling = {"K", "Q", "k", "q"}]

\* 4k3/P4p2/3P4/8/8/8/8/4K3 b - - 0 2: then e5 takes d6 en passant.
AfterCaptureFen ==
    [ranks |-> << <<".", ".", ".", ".", "k", ".", ".", ".">>,
                  <<"P", ".", ".", ".", ".", "p", ".", ".">>,
                  <<".", ".", ".", "P", ".", ".", ".", ".">>,
                  EmptyRank, EmptyRank, EmptyRank, EmptyRank,
                  <<".", ".", ".", ".", "K", ".", ".", ".">> >>,
     turn |-> BLACK, castling |-> {}, ep |-> NoSquare]

\* The positions boards are constructed from.
FenPositions ==
    {StartingFen, CastlingFen, EmptyFen, KingsOnlyFen, MultipleQueensFen,
     EnPassantFen, LoneTargetFen}

\* ------------------------------------------------ chess.Board: the queries
RANK_1 == {s \in SQUARES : square_rank(s) = 0}
RANK_8 == {s \in SQUARES : square_rank(s) = 7}
BackRank(color) == IF color = WHITE THEN RANK_1 ELSE RANK_8

piece_at(b, s) == b.pieces[s]
Occupied(b, s) == b.pieces[s] # NoPiece
OccupiedBy(b, s, color) == Occupied(b, s) /\ b.pieces[s].color = color
PiecesOf(b, piece_type, color) == {s \in SQUARES : b.pieces[s] = Piece(piece_type, color)}

\* Board.clean_castling_rights (standard chess): a right needs its rook on the
\* corner and the king on its home square.
clean_castling_rights(b) ==
    LET white == IF b.pieces[E1] = Piece(KING, WHITE)
                 THEN {s \in b.castling_rights \cap {A1, H1} : b.pieces[s] = Piece(ROOK, WHITE)}
                 ELSE {}
        black == IF b.pieces[E8] = Piece(KING, BLACK)
                 THEN {s \in b.castling_rights \cap {A8, H8} : b.pieces[s] = Piece(ROOK, BLACK)}
                 ELSE {}
    IN  white \cup black

\* Board.has_kingside_castling_rights: a right on a rook beyond the king.
has_kingside_castling_rights(b, color) ==
    LET kings == PiecesOf(b, KING, color) \cap BackRank(color)
    IN  /\ kings # {}
        /\ \E rook \in clean_castling_rights(b) \cap BackRank(color) :
              \A king \in kings : rook > king

\* Board.has_queenside_castling_rights: a right on a rook before the king.
has_queenside_castling_rights(b, color) ==
    LET kings == PiecesOf(b, KING, color) \cap BackRank(color)
    IN  /\ kings # {}
        /\ \E rook \in clean_castling_rights(b) \cap BackRank(color) :
              \E king \in kings : rook < king

\* ------------------------------------- chess.Board: the pseudo-legal moves
Move(from_square, to_square, promotion) ==
    [from_square |-> from_square, to_square |-> to_square, promotion |-> promotion]

OnBoard(file, rank) == file \in 0..7 /\ rank \in 0..7

KnightSteps == {<<1, 2>>, <<2, 1>>, <<2, -1>>, <<1, -2>>, <<-1, -2>>, <<-2, -1>>, <<-2, 1>>, <<-1, 2>>}
RookRays == {<<1, 0>>, <<-1, 0>>, <<0, 1>>, <<0, -1>>}
BishopRays == {<<1, 1>>, <<1, -1>>, <<-1, 1>>, <<-1, -1>>}

\* The squares a step of d = <<files, ranks>> repeated k times leads to, while the
\* squares passed are empty and the last one holds no piece of the mover.
Reach(b, from, color, rays, maxSteps) ==
    UNION { LET f == square_file(from) + k * d[1]
                r == square_rank(from) + k * d[2]
            IN  IF /\ OnBoard(f, r)
                   /\ \A j \in 1..(k - 1) :
                         ~Occupied(b, square(square_file(from) + j * d[1],
                                             square_rank(from) + j * d[2]))
                   /\ ~OccupiedBy(b, square(f, r), color)
                THEN {square(f, r)}
                ELSE {}
          : d \in rays, k \in 1..maxSteps }

PawnStep(color) == IF color = WHITE THEN 8 ELSE -8

PawnTargets(b, from, color) ==
    LET up == PawnStep(color)
        one == from + up
        two == from + 2 * up
        home == IF color = WHITE THEN 1 ELSE 6
        fifth == IF color = WHITE THEN 4 ELSE 3
        attacks == {t \in {one - 1, one + 1} :
                       /\ t \in SQUARES
                       /\ square_rank(t) = square_rank(from) + up \div 8
                       /\ square_file(t) - square_file(from) \in {-1, 1}}
    IN  {t \in attacks : OccupiedBy(b, t, ~color)}
        \cup {t \in attacks : t = b.ep_square /\ ~Occupied(b, t) /\ square_rank(from) = fifth}
        \cup (IF one \in SQUARES /\ ~Occupied(b, one) THEN {one} ELSE {})
        \cup (IF /\ square_rank(from) = home
                 /\ ~Occupied(b, one)
                 /\ ~Occupied(b, two)
              THEN {two} ELSE {})

\* The squares the piece on `from` attacks.
Attacks(b, from) ==
    LET piece == b.pieces[from]
        color == piece.color
        one == from + PawnStep(color)
    IN  CASE piece.piece_type = PAWN ->
                {t \in {one - 1, one + 1} :
                    /\ t \in SQUARES
                    /\ square_file(t) - square_file(from) \in {-1, 1}}
          [] piece.piece_type = KNIGHT -> Reach(b, from, ~color, KnightSteps, 1)
          [] piece.piece_type = BISHOP -> Reach(b, from, ~color, BishopRays, 7)
          [] piece.piece_type = ROOK -> Reach(b, from, ~color, RookRays, 7)
          [] piece.piece_type = QUEEN -> Reach(b, from, ~color, RookRays \cup BishopRays, 7)
          [] piece.piece_type = KING -> Reach(b, from, ~color, RookRays \cup BishopRays, 1)
          [] OTHER -> {}

\* Board.is_attacked_by(color, square)
is_attacked_by(b, color, sq) ==
    \E from \in SQUARES : OccupiedBy(b, from, color) /\ sq \in Attacks(b, from)

\* Board.generate_castling_moves, written as the king's two-square move: the right
\* is held, the squares between king and rook are empty, and the king neither
\* stands on, passes nor reaches an attacked square.
CastlingTargets(b, from, color) ==
    LET home == IF color = WHITE THEN E1 ELSE E8
    IN  IF from # home THEN {}
        ELSE (IF /\ has_kingside_castling_rights(b, color)
                 /\ ~Occupied(b, home + 1) /\ ~Occupied(b, home + 2)
                 /\ \A s \in {home, home + 1, home + 2} : ~is_attacked_by(b, ~color, s)
              THEN {home + 2} ELSE {})
             \cup
             (IF /\ has_queenside_castling_rights(b, color)
                 /\ ~Occupied(b, home - 1) /\ ~Occupied(b, home - 2)
                 /\ ~Occupied(b, home - 3)
                 /\ \A s \in {home, home - 1, home - 2} : ~is_attacked_by(b, ~color, s)
              THEN {home - 2} ELSE {})

Targets(b, from) ==
    LET piece == b.pieces[from]
        color == piece.color
    IN  CASE piece.piece_type = PAWN -> PawnTargets(b, from, color)
          [] piece.piece_type = KNIGHT -> Reach(b, from, color, KnightSteps, 1)
          [] piece.piece_type = BISHOP -> Reach(b, from, color, BishopRays, 7)
          [] piece.piece_type = ROOK -> Reach(b, from, color, RookRays, 7)
          [] piece.piece_type = QUEEN -> Reach(b, from, color, RookRays \cup BishopRays, 7)
          [] piece.piece_type = KING -> Reach(b, from, color, RookRays \cup BishopRays, 1)
                                          \cup CastlingTargets(b, from, color)
          [] OTHER -> {}

\* A pawn reaching the last rank names the piece it promotes to (0: no promotion).
Promotions(b, from, to) ==
    IF b.pieces[from].piece_type = PAWN /\ square_rank(to) \in {0, 7}
    THEN {QUEEN, ROOK, BISHOP, KNIGHT}
    ELSE {0}

pseudo_legal_moves(b) ==
    UNION { { Move(from, to, promotion) : promotion \in Promotions(b, from, to) }
          : <<from, to>> \in UNION { {from} \X Targets(b, from)
                                   : from \in {s \in SQUARES : OccupiedBy(b, s, b.turn)} } }

\* ------------------------------------------------------ chess.Board.push
IsDoubleStep(b, move) ==
    /\ b.pieces[move.from_square].piece_type = PAWN
    /\ \/ move.to_square - move.from_square = 16 /\ square_rank(move.from_square) = 1
       \/ move.to_square - move.from_square = -16 /\ square_rank(move.from_square) = 6

IsEnPassant(b, move) ==
    /\ b.pieces[move.from_square].piece_type = PAWN
    /\ move.to_square = b.ep_square
    /\ (move.to_square - move.from_square) \in {7, 9, -7, -9}
    /\ ~Occupied(b, move.to_square)

IsCastling(b, move) ==
    /\ b.pieces[move.from_square].piece_type = KING
    /\ (square_file(move.to_square) - square_file(move.from_square)) \in {2, -2}

\* The board after board.push(move).
push(b, move) ==
    LET from == move.from_square
        to == move.to_square
        piece == b.pieces[from]
        \* castling rights: cleaned, less the squares touched, less the mover's
        \* back rank on a king move
        touched == clean_castling_rights(b) \ {from, to}
        rights == IF piece.piece_type = KING
                  THEN touched \ BackRank(b.turn)
                  ELSE touched
        ep == IF IsDoubleStep(b, move) THEN (from + to) \div 2 ELSE NoSquare
        captured == IF IsEnPassant(b, move)
                    THEN {b.ep_square - PawnStep(b.turn)}
                    ELSE {}
        placed == IF move.promotion # 0 THEN Piece(move.promotion, b.turn) ELSE piece
        a_side == square_file(to) < square_file(from)
        rookFrom == IF a_side THEN from - 4 ELSE from + 3
        rookTo == IF a_side THEN from - 1 ELSE from + 1
    IN  [pieces |-> [s \in SQUARES |->
                        CASE s = from -> NoPiece
                          [] s \in captured -> NoPiece
                          [] s = to -> placed
                          [] IsCastling(b, move) /\ s = rookFrom -> NoPiece
                          [] IsCastling(b, move) /\ s = rookTo -> Piece(ROOK, b.turn)
                          [] OTHER -> b.pieces[s]],
         turn |-> ~b.turn,
         castling_rights |-> rights,
         ep_square |-> ep]

\* ------------------------------------------------ board_encoder.encode_board
\* A numpy array: its dtype and its cells, data[channel][rank][file].
NoArray == [dtype |-> "none", data |-> <<>>]

\* np.zeros((NUM_CHANNELS, 8, 8)) without the dtype: numpy's default float64.
zerosFloat64 ==
    [dtype |-> "float64",
     data |-> [channel \in 0..(NUM_CHANNELS - 1) |-> [rank \in 0..7 |-> [file \in 0..7 |-> 0]]]]

\* np.zeros((NUM_CHANNELS, 8, 8), dtype=np.float32)
zeros == [dtype |-> "float32",
          data |-> [channel \in 0..(NUM_CHANNELS - 1) |-> [rank \in 0..7 |-> [file \in 0..7 |-> 0]]]]

\* The channel computed from piece_type itself (1..6), not from piece_type - 1.
PieceChannelOneBased(piece) ==
    IF piece.color = WHITE
    THEN WHITE_PIECE_OFFSET + piece.piece_type
    ELSE BLACK_PIECE_OFFSET + piece.piece_type

\* The channel of a piece: its colour's offset plus piece_type - 1.
PieceChannel(piece) ==
    LET piece_index == piece.piece_type - 1
    IN  IF piece.color = WHITE
        THEN WHITE_PIECE_OFFSET + piece_index
        ELSE BLACK_PIECE_OFFSET + piece_index

\* encoding[channel, file, rank] = 1.0: the two board indices exchanged.
SetCellFileRank(encoding, channel, rank, file) ==
    [encoding EXCEPT !.data[channel][file][rank] = 1]

\* encoding[channel, rank, file] = 1.0
SetCell(encoding, channel, rank, file) ==
    [encoding EXCEPT !.data[channel][rank][file] = 1]

\* encoding[channel, :, :] = 1.0
FillPlane(encoding, channel) ==
    [encoding EXCEPT !.data[channel] = [rank \in 0..7 |-> [file \in 0..7 |-> 1]]]

\* encoding[channel, :, file] = 1.0
FillFile(encoding, channel, file) ==
    [encoding EXCEPT !.data[channel] =
        [rank \in 0..7 |-> [f \in 0..7 |-> IF f = file THEN 1 ELSE @[rank][f]]]]

\* The body of the loop for one square.
EncodeSquare(b, encoding, sq) ==
    LET piece == piece_at(b, sq)
    IN  IF piece # NoPiece
        THEN SetCell(encoding, PieceChannel(piece), square_rank(sq), square_file(sq))
        ELSE encoding

\* for square in chess.SQUARES: the iterations for squares lo..hi, in ascending
\* order.  The range is halved, and the array left by the first half is a
\* value before the second half starts, which keeps the evaluation shallow.
RECURSIVE EncodePieces(_, _, _, _)
EncodePieces(b, encoding, lo, hi) ==
    IF lo = hi THEN EncodeSquare(b, encoding, lo)
    ELSE LET mid == (lo + hi) \div 2
         IN  CHOOSE done \in { EncodePieces(b, first, mid + 1, hi) :
                               first \in {EncodePieces(b, encoding, lo, mid)} } : TRUE

\* The side-to-move plane filled for the other side.
EncodeSideToMoveBlack(b, encoding) ==
    IF b.turn = BLACK THEN FillPlane(encoding, SIDE_TO_MOVE_CHANNEL) ELSE encoding

EncodeSideToMove(b, encoding) ==
    IF b.turn = WHITE THEN FillPlane(encoding, SIDE_TO_MOVE_CHANNEL) ELSE encoding

\* The castling planes with White's queenside and Black's kingside exchanged.
EncodeCastlingSwapped(b, encoding) ==
    LET wk == IF has_kingside_castling_rights(b, WHITE)
              THEN FillPlane(encoding, CASTLING_WK_CHANNEL) ELSE encoding
        wq == IF has_queenside_castling_rights(b, WHITE)
              THEN FillPlane(wk, CASTLING_BK_CHANNEL) ELSE wk
        bk == IF has_kingside_castling_rights(b, BLACK)
              THEN FillPlane(wq, CASTLING_WQ_CHANNEL) ELSE wq
        bq == IF has_queenside_castling_rights(b, BLACK)
              THEN FillPlane(bk, CASTLING_BQ_CHANNEL) ELSE bk
    IN  bq

EncodeCastling(b, encoding) ==
    LET wk == IF has_kingside_castling_rights(b, WHITE)
              THEN FillPlane(encoding, CASTLING_WK_CHANNEL) ELSE encoding
        wq == IF has_queenside_castling_rights(b, WHITE)
              THEN FillPlane(wk, CASTLING_WQ_CHANNEL) ELSE wk
        bk == IF has_kingside_castling_rights(b, BLACK)
              THEN FillPlane(wq, CASTLING_BK_CHANNEL) ELSE wq
        bq == IF has_queenside_castling_rights(b, BLACK)
              THEN FillPlane(bk, CASTLING_BQ_CHANNEL) ELSE bk
    IN  bq

\* The en-passant file marked only when some pawn can capture en passant.
EncodeEnPassantIfCapturable(b, encoding) ==
    IF b.ep_square # NoSquare /\ \E move \in pseudo_legal_moves(b) : IsEnPassant(b, move)
    THEN FillFile(encoding, EN_PASSANT_CHANNEL, square_file(b.ep_square))
    ELSE encoding

EncodeEnPassant(b, encoding) ==
    IF b.ep_square # NoSquare
    THEN FillFile(encoding, EN_PASSANT_CHANNEL, square_file(b.ep_square))
    ELSE encoding

\* One array kept between calls: a call starts from what the call before it left.
ReusedEncoding == IF encoded = NoArray THEN zeros ELSE encoded

\* The array every call starts from.
NewEncoding == zeros

encode_board(b) ==
    EncodeEnPassant(b, EncodeCastling(b, EncodeSideToMove(b, EncodePieces(b, NewEncoding, 0, 63))))

\* ------------------------------------------------------------ the encoder run
NoMove == [move |-> Move(NoSquare, NoSquare, 0), kind |-> "none",
           ep_before |-> NoSquare, rights_before |-> {}]

MoveKind(b, move) ==
    CASE IsDoubleStep(b, move) -> "double_step"
      [] IsEnPassant(b, move) -> "en_passant"
      [] OTHER -> "other"

\* The castling channels whose permission the board holds.
CastlingHeld(b) ==
    (IF has_kingside_castling_rights(b, WHITE) THEN {CASTLING_WK_CHANNEL} ELSE {})
    \cup (IF has_queenside_castling_rights(b, WHITE) THEN {CASTLING_WQ_CHANNEL} ELSE {})
    \cup (IF has_kingside_castling_rights(b, BLACK) THEN {CASTLING_BK_CHANNEL} ELSE {})
    \cup (IF has_queenside_castling_rights(b, BLACK) THEN {CASTLING_BQ_CHANNEL} ELSE {})

NoBoard == [pieces |-> <<>>, turn |-> WHITE, castling_rights |-> {}, ep_square |-> NoSquare]
\* No network is constructed while the encoder runs.
NoNet == [num_blocks |-> 0]
NoOut == [call |-> 0]
\* No network constructed yet.
NotMade == [how |-> "none"]
NoThreads == <<>>
NoBlock == [call |-> 0]
\* No encode_board_tensor call yet.
NoTensor == [of |-> "none"]

\* board = chess.Board(fen)
InitBoard(fens) ==
    /\ fen \in fens
    /\ board = BoardFromFen(fen)
    /\ ply = 0
    /\ last = NoMove
    /\ encoded = NoArray
    /\ encPly = -1

Init ==
    /\ InitBoard(FenPositions)
    /\ board2 = NoBoard
    /\ encoded2 = NoArray
    /\ net = NoNet
    /\ out = NoOut
    /\ threads = NoThreads
    /\ before = NoOut
    /\ tensor = NoTensor
    /\ made = NotMade
    /\ resblock = NoBlock

\* board.push(move), for a pseudo-legal move.
Push ==
    /\ ply < MaxPly
    /\ \E move \in pseudo_legal_moves(board) :
          /\ board' = push(board, move)
          /\ last' = [move |-> move, kind |-> MoveKind(board, move),
                      ep_before |-> board.ep_square,
                      rights_before |-> CastlingHeld(board)]
    /\ ply' = ply + 1
    /\ UNCHANGED <<fen, encoded, encPly, board2, encoded2, net, out, threads, before, resblock, made,
                   tensor>>

\* encoded = encode_board(board)
Encode ==
    /\ encoded' = encode_board(board)
    /\ encPly' = ply
    /\ UNCHANGED <<fen, board, ply, last, board2, encoded2, net, out, threads, before, resblock, made,
                   tensor>>

Next == Push \/ Encode

Spec == Init /\ [][Next]_vars

\* encoded is the encoding of the board as it stands.
fresh == encPly = ply

\* ------------------------------------- two boards, encoded independently
\* The FENs the moved board starts from, and those the second board is built from.
MovedFens == {EnPassantFen, AfterDoubleStepFen}
DirectFens == {AfterDoubleStepFen, AfterDoubleStepCastlingFen, AfterCaptureFen}

PureInit ==
    /\ InitBoard(MovedFens)
    /\ board2 \in {BoardFromFen(f) : f \in DirectFens}
    /\ encoded2 = NoArray
    /\ net = NoNet
    /\ out = NoOut
    /\ threads = NoThreads
    /\ before = NoOut
    /\ tensor = NoTensor
    /\ made = NotMade
    /\ resblock = NoBlock

\* encoded2 = encode_board(board2)
Encode2 ==
    /\ encoded2' = encode_board(board2)
    /\ UNCHANGED <<fen, board, ply, last, encoded, encPly, board2, net, out, threads, before, resblock, made,
                   tensor>>

PureNext == Push \/ Encode \/ Encode2

PureSpec == PureInit /\ [][PureNext]_vars

\* ------------------------------ two boards that agree in part of the position
\* 4k3/8/8/8/6pP/8/8/4K3 b - h3 0 1: LoneTargetFen with a black pawn that can
\* capture on the target.
GuardedTargetFen ==
    [LoneTargetFen EXCEPT !.ranks[5] = <<".", ".", ".", ".", ".", ".", "p", "P">>]

\* 4k3/8/8/8/7P/8/8/4K3 w - - 0 1: the pieces of LoneTargetFen, White to move and
\* no target.
NoTargetFen == [LoneTargetFen EXCEPT !.turn = WHITE, !.ep = NoSquare]

\* 4k3/8/8/8/8/8/8/4K2R w K - 0 1
RookFen ==
    [KingsOnlyFen EXCEPT !.ranks[8] = <<".", ".", ".", ".", "K", ".", ".", "R">>,
                         !.castling = {"K"}]

\* 4k3/8/8/8/8/8/8/4K2R w - - 0 1: the same pieces without the permission.
RookNoRightFen == [RookFen EXCEPT !.castling = {}]

\* 4k3/8/8/8/8/8/8/4K3 w K - 0 1: the castling letter of RookFen without its rook.
UnbackedRightFen == [KingsOnlyFen EXCEPT !.castling = {"K"}]

\* The FENs the moved board starts from, and those the second board is built from.
MovedPlaneFens == {LoneTargetFen, RookFen}
DirectPlaneFens ==
    {LoneTargetFen, GuardedTargetFen, NoTargetFen, RookNoRightFen, UnbackedRightFen}

PlanesInit ==
    /\ InitBoard(MovedPlaneFens)
    /\ board2 \in {BoardFromFen(f) : f \in DirectPlaneFens}
    /\ encoded2 = NoArray
    /\ net = NoNet
    /\ out = NoOut
    /\ threads = NoThreads
    /\ before = NoOut
    /\ made = NotMade
    /\ resblock = NoBlock
    /\ tensor = NoTensor

PlanesSpec == PlanesInit /\ [][PureNext]_vars

\* Two boards agree on every square, the side to move, the four castling
\* permissions and the en-passant target.
SamePosition(b1, b2) ==
    /\ \A s \in SQUARES : piece_at(b1, s) = piece_at(b2, s)
    /\ b1.turn = b2.turn
    /\ CastlingHeld(b1) = CastlingHeld(b2)
    /\ b1.ep_square = b2.ep_square

\* ==================================================================== model.py
\* A tensor is known by its shape and by the batch it was computed from; ErrorShape
\* stands for the exception a layer raises on a shape it does not accept.
ErrorShape == <<>>

\* The parameters of a layer are known as "any" (as initialized or trained) or as
\* "zero" (all of them 0.0).
\* nn.Conv2d(in_channels, out_channels, kernel_size, padding, bias=False)
Conv2d(in_channels, out_channels, kernel_size, padding) ==
    [in_channels |-> in_channels, out_channels |-> out_channels,
     kernel_size |-> kernel_size, padding |-> padding, weight |-> "any"]

\* nn.BatchNorm2d(num_features): its buffers start at no batch tracked.
BatchNorm2d(num_features) ==
    [num_features |-> num_features, num_batches_tracked |-> 0, running |-> <<>>,
     weight |-> "any"]

\* nn.Linear(in_features, out_features)
Linear(in_features, out_features) ==
    [in_features |-> in_features, out_features |-> out_features, weight |-> "any"]

\* A block whose layers are DEFAULT_NUM_FILTERS wide whatever it is given.
ResidualBlockDefaultWidth(num_filters) ==
    [conv1 |-> Conv2d(DEFAULT_NUM_FILTERS, DEFAULT_NUM_FILTERS, 3, 1),
     bn1 |-> BatchNorm2d(DEFAULT_NUM_FILTERS),
     conv2 |-> Conv2d(DEFAULT_NUM_FILTERS, DEFAULT_NUM_FILTERS, 3, 1),
     bn2 |-> BatchNorm2d(DEFAULT_NUM_FILTERS)]

\* ResidualBlock.__init__
ResidualBlock(num_filters) ==
    [conv1 |-> Conv2d(num_filters, num_filters, 3, 1),
     bn1 |-> BatchNorm2d(num_filters),
     conv2 |-> Conv2d(num_filters, num_filters, 3, 1),
     bn2 |-> BatchNorm2d(num_filters)]

\* The policy head's 1x1 convolution with the value head's single output channel.
PolicyConvOneChannel(num_filters) == Conv2d(num_filters, 1, 1, 0)

\* self.policy_conv of ChessNet.__init__
PolicyConv(num_filters) == Conv2d(num_filters, 2, 1, 0)

\* ChessNet.__init__; a new nn.Module is in training mode and on the CPU. `params`
\* counts the optimizer steps that wrote the parameters.
ChessNet(num_blocks, num_filters) ==
    [num_blocks |-> num_blocks,
     num_filters |-> num_filters,
     training |-> TRUE,
     params |-> 0,
     device |-> "cpu",
     initial_conv |-> Conv2d(NUM_CHANNELS, num_filters, 3, 1),
     initial_bn |-> BatchNorm2d(num_filters),
     residual_blocks |-> [i \in 1..num_blocks |-> ResidualBlock(num_filters)],
     policy_conv |-> PolicyConv(num_filters),
     policy_bn |-> BatchNorm2d(2),
     policy_fc |-> Linear(2 * BOARD_SIZE * BOARD_SIZE, POLICY_OUTPUT_SIZE),
     value_conv |-> Conv2d(num_filters, 1, 1, 0),
     value_bn |-> BatchNorm2d(1),
     value_fc1 |-> Linear(1 * BOARD_SIZE * BOARD_SIZE, 256),
     value_fc2 |-> Linear(256, 1)]

\* ------------------------------------------------------------ count_parameters
\* p.numel() summed over a layer's parameters; all of them have requires_grad set.
\* A Conv2d with bias=False holds its weight [out, in, k, k] only.
ConvParameters(conv) ==
    conv.out_channels * conv.in_channels * conv.kernel_size * conv.kernel_size

\* A BatchNorm2d holds weight and bias, each [num_features]; its running
\* statistics are buffers, not parameters.
BatchNormParameters(bn) == 2 * bn.num_features

\* A Linear holds weight [out, in] and bias [out].
LinearParameters(fc) == fc.in_features * fc.out_features + fc.out_features

ResidualBlockParameters(block) ==
    ConvParameters(block.conv1) + BatchNormParameters(block.bn1)
    + ConvParameters(block.conv2) + BatchNormParameters(block.bn2)

\* The parameters of self.residual_blocks[i..], which nn.ModuleList registers.
RECURSIVE TowerParameters(_, _)
TowerParameters(blocks, i) ==
    IF i > Len(blocks) THEN 0
    ELSE ResidualBlockParameters(blocks[i]) + TowerParameters(blocks, i + 1)

\* The count with the residual blocks left out, as if they were held in a plain
\* list that registers no parameters.
count_parameters_without_tower(model) ==
    ConvParameters(model.initial_conv) + BatchNormParameters(model.initial_bn)
    + ConvParameters(model.policy_conv) + BatchNormParameters(model.policy_bn)
    + LinearParameters(model.policy_fc)
    + ConvParameters(model.value_conv) + BatchNormParameters(model.value_bn)
    + LinearParameters(model.value_fc1) + LinearParameters(model.value_fc2)

\* ChessNet.count_parameters
count_parameters(model) ==
    ConvParameters(model.initial_conv) + BatchNormParameters(model.initial_bn)
    + TowerParameters(model.residual_blocks, 1)
    + ConvParameters(model.policy_conv) + BatchNormParameters(model.policy_bn)
    + LinearParameters(model.policy_fc)
    + ConvParameters(model.value_conv) + BatchNormParameters(model.value_bn)
    + LinearParameters(model.value_fc1) + LinearParameters(model.value_fc2)

\* ------------------------------------------------------------------- forward
\* A convolution that ignores its padding.
ConvForwardUnpadded(conv, shape) ==
    IF Len(shape) # 4 \/ shape[2] # conv.in_channels \/ conv.out_channels < 1
       \/ shape[3] < conv.kernel_size \/ shape[4] < conv.kernel_size
    THEN ErrorShape
    ELSE <<shape[1], conv.out_channels,
           shape[3] - conv.kernel_size + 1, shape[4] - conv.kernel_size + 1>>

\* conv(x): [B, in_channels, H, W] -> [B, out_channels, H + 2p - k + 1, W + 2p - k + 1];
\* a weight with no output channel is rejected (groups = 1).
ConvForward(conv, shape) ==
    IF Len(shape) # 4 \/ shape[2] # conv.in_channels \/ conv.out_channels < 1
       \/ shape[3] + 2 * conv.padding < conv.kernel_size
       \/ shape[4] + 2 * conv.padding < conv.kernel_size
    THEN ErrorShape
    ELSE <<shape[1], conv.out_channels,
           shape[3] + 2 * conv.padding - conv.kernel_size + 1,
           shape[4] + 2 * conv.padding - conv.kernel_size + 1>>

\* Whether bn(x) raises: a wrong channel count, or in training mode a single value
\* per channel.
BatchNormRejects(bn, shape, training) ==
    \/ Len(shape) # 4
    \/ shape[2] # bn.num_features
    \/ training /\ shape[1] * shape[3] * shape[4] <= 1

\* The buffers of a BatchNorm2d that folds every batch in, whatever the mode.
BatchNormAlwaysUpdates(bn, shape, training, batch) ==
    IF BatchNormRejects(bn, shape, training)
    THEN bn
    ELSE [bn EXCEPT !.num_batches_tracked = @ + 1, !.running = Append(@, batch)]

\* The buffers of a BatchNorm2d after bn(x): in training mode the batch is counted
\* and folded into the running statistics, in eval mode nothing is written.
BatchNormUpdate(bn, shape, training, batch) ==
    IF training /\ ~BatchNormRejects(bn, shape, training)
    THEN [bn EXCEPT !.num_batches_tracked = @ + 1, !.running = Append(@, batch)]
    ELSE bn

\* A BatchNorm2d that normalizes with the statistics of the batch in either mode.
BatchNormStatisticsOfBatch(bn, training, batch) == [of |-> "batch", from |-> batch]

\* What bn(x) normalizes with: the mean and variance of the batch in training mode,
\* the running estimates in its buffers in eval mode.
BatchNormStatistics(bn, training, batch) ==
    IF training
    THEN [of |-> "batch", from |-> batch]
    ELSE [of |-> "running", from |-> bn.running]

\* bn(x) keeps the shape.
BatchNormForward(bn, shape, training) ==
    IF BatchNormRejects(bn, shape, training) THEN ErrorShape ELSE shape

\* F.relu, torch.tanh: elementwise
Elementwise(shape) == shape

\* x.view(x.size(0), -1)
Flatten(shape) ==
    IF Len(shape) # 4 THEN ErrorShape ELSE <<shape[1], shape[2] * shape[3] * shape[4]>>

\* fc(x): [B, in_features] -> [B, out_features]
LinearForward(fc, shape) ==
    IF Len(shape) # 2 \/ shape[2] # fc.in_features
    THEN ErrorShape
    ELSE <<shape[1], fc.out_features>>

\* out + identity
AddSkip(shape, identity) ==
    IF shape = identity THEN shape ELSE ErrorShape

\* ------------------------------------------------- the values of the tensors
\* What is known of the entries of a tensor: all 0.0, the input X itself or
\* relu(X), or an interval of real numbers they lie in.
Zeros == "0"
TheInput == "X"
ReluOfInput == "relu(X)"
AnyReal == "(-inf, inf)"
NonNegative == "[0, inf)"
Unit == "[-1, 1]"
ZeroOne == "[0, 1]"

\* conv(x), bias=False
ConvValues(conv, v) ==
    IF conv.weight = "zero" \/ v = Zeros THEN Zeros ELSE AnyReal

\* bn(x): weight * (x - mean) / sqrt(var + eps) + bias
BatchNormValues(bn, v) ==
    IF bn.weight = "zero" THEN Zeros ELSE AnyReal

\* fc(x): x A^T + b
LinearValues(fc, v) ==
    IF fc.weight = "zero" THEN Zeros ELSE AnyReal

\* F.relu(x)
ReluValues(v) ==
    CASE v = Zeros -> Zeros
      [] v \in {TheInput, ReluOfInput} -> ReluOfInput
      [] v \in {Unit, ZeroOne} -> ZeroOne
      [] OTHER -> NonNegative

\* torch.tanh(x)
TanhValues(v) ==
    CASE v = Zeros -> Zeros
      [] v \in {NonNegative, ZeroOne, ReluOfInput} -> ZeroOne
      [] OTHER -> Unit

\* A residual block without its skip connection.
AddValuesSkipDropped(v, identity) == v

\* out + identity
AddValues(v, identity) ==
    CASE v = Zeros -> identity
      [] identity = Zeros -> v
      [] v \in {NonNegative, ZeroOne, ReluOfInput}
         /\ identity \in {NonNegative, ZeroOne, ReluOfInput} -> NonNegative
      [] OTHER -> AnyReal

\* A block that returns the sum without rectifying it.
ResidualBlockValuesUnrectified(block, v) ==
    LET identity == v
        o1 == ReluValues(BatchNormValues(block.bn1, ConvValues(block.conv1, v)))
        o2 == BatchNormValues(block.bn2, ConvValues(block.conv2, o1))
    IN  AddValues(o2, identity)

\* ResidualBlock.forward, on the values.
ResidualBlockValues(block, v) ==
    LET identity == v
        o1 == ReluValues(BatchNormValues(block.bn1, ConvValues(block.conv1, v)))
        o2 == BatchNormValues(block.bn2, ConvValues(block.conv2, o1))
    IN  ReluValues(AddValues(o2, identity))

\* for block in self.residual_blocks: x = block(x), on the values.
RECURSIVE TowerValues(_, _, _)
TowerValues(blocks, i, v) ==
    IF i > Len(blocks) THEN v
    ELSE TowerValues(blocks, i + 1, ResidualBlockValues(blocks[i], v))

\* The values of x after each block of the loop, from block i on.
RECURSIVE TrunkValues(_, _, _)
TrunkValues(blocks, i, v) ==
    IF i > Len(blocks) THEN <<>>
    ELSE CHOOSE done \in
             {<<y>> \o TrunkValues(blocks, i + 1, y) :
              y \in {ResidualBlockValues(blocks[i], v)}} : TRUE

\* A policy head that applies the softmax itself.
PolicyLogitsSoftmaxed(fc, v) == ZeroOne

\* policy_logits = self.policy_fc(policy): no activation follows.
PolicyLogits(fc, v) == LinearValues(fc, v)

\* A value head that returns the output of value_fc2 as it is.
ValueOutputRaw(fc, v) == LinearValues(fc, v)

\* value = torch.tanh(self.value_fc2(value))
ValueOutput(fc, v) == TanhValues(LinearValues(fc, v))

\* ChessNet.forward, on the values.
ChessNetValues(model, v) ==
    LET x0 == ReluValues(BatchNormValues(model.initial_bn, ConvValues(model.initial_conv, v)))
        trunk == TowerValues(model.residual_blocks, 1, x0)
        policy == ReluValues(BatchNormValues(model.policy_bn,
                                             ConvValues(model.policy_conv, trunk)))
        value == ReluValues(BatchNormValues(model.value_bn,
                                            ConvValues(model.value_conv, trunk)))
        value1 == ReluValues(LinearValues(model.value_fc1, value))
    IN  [policy_logits |-> PolicyLogits(model.policy_fc, policy),
         value |-> ValueOutput(model.value_fc2, value1),
         trunk |-> <<x0>> \o TrunkValues(model.residual_blocks, 1, x0)]

\* ResidualBlock.forward: the output shape and the block with its buffers updated.
ResidualBlockForward(block, x, training, batch) ==
    LET identity == x
        c1 == ConvForward(block.conv1, x)
        b1 == BatchNormForward(block.bn1, c1, training)
        r1 == Elementwise(b1)
        c2 == ConvForward(block.conv2, r1)
        b2 == BatchNormForward(block.bn2, c2, training)
        sum == AddSkip(b2, identity)
    IN  [y |-> Elementwise(sum),
         norm |-> <<BatchNormStatistics(block.bn1, training, batch),
                    BatchNormStatistics(block.bn2, training, batch)>>,
         block |-> [block EXCEPT
                       !.bn1 = BatchNormUpdate(@, c1, training, batch),
                       !.bn2 = BatchNormUpdate(@, c2, training, batch)]]

\* for block in self.residual_blocks: x = block(x), from block i on; ys lists the
\* shape of x after each block.
RECURSIVE TowerForward(_, _, _, _, _, _)
TowerForward(blocks, i, x, norm, training, batch) ==
    IF i > Len(blocks) THEN [y |-> x, norm |-> norm, blocks |-> blocks, ys |-> <<>>]
    ELSE CHOOSE done \in
             {[TowerForward([blocks EXCEPT ![i] = step.block], i + 1, step.y,
                            norm \o step.norm, training, batch)
                  EXCEPT !.ys = <<step.y>> \o @] :
              step \in {ResidualBlockForward(blocks[i], x, training, batch)}} : TRUE

\* Where an activation comes from: the input projection, or the residual block of
\* an index 0 .. N-1.
Projection == -1

\* A loop that hands every block the output of the input projection.
RECURSIVE TowerFlowFromProjection(_, _, _, _)
TowerFlowFromProjection(blocks, i, from, path) ==
    IF i > Len(blocks) THEN [from |-> i - 2, path |-> path]
    ELSE TowerFlowFromProjection(blocks, i + 1, from,
                                 Append(path, [block |-> i - 1, input |-> from]))

\* for block in self.residual_blocks: x = block(x), from block i on: the blocks
\* called, each with where its input came from, and where x comes from at the end.
RECURSIVE TowerFlow(_, _, _, _)
TowerFlow(blocks, i, from, path) ==
    IF i > Len(blocks) THEN [from |-> from, path |-> path]
    ELSE TowerFlow(blocks, i + 1, i - 1, Append(path, [block |-> i - 1, input |-> from]))

\* What an output is computed from: the input batch, the parameters, and the
\* statistics each normalization layer on the way to it normalized with.
Computed(batch, weights, norm) == [input |-> batch, weights |-> weights, norm |-> norm]

\* ChessNet.forward(x): the two outputs and the network as the call leaves it.
ChessNetForward(model, x, batch) ==
    LET training == model.training
        c0 == ConvForward(model.initial_conv, x)
        b0 == BatchNormForward(model.initial_bn, c0, training)
        r0 == Elementwise(b0)
        tower == TowerForward(model.residual_blocks, 1, r0,
                              <<BatchNormStatistics(model.initial_bn, training, batch)>>,
                              training, batch)
        trunk == tower.y
        flow == TowerFlow(model.residual_blocks, 1, Projection, <<>>)
        pc == ConvForward(model.policy_conv, trunk)
        pb == BatchNormForward(model.policy_bn, pc, training)
        pf == Flatten(Elementwise(pb))
        policy_logits == LinearForward(model.policy_fc, pf)
        vc == IF policy_logits = ErrorShape THEN ErrorShape
              ELSE ConvForward(model.value_conv, trunk)
        vb == BatchNormForward(model.value_bn, vc, training)
        vf == Flatten(Elementwise(vb))
        v1 == Elementwise(LinearForward(model.value_fc1, vf))
        value == Elementwise(LinearForward(model.value_fc2, v1))
    IN  [policy_logits |-> policy_logits,
         value |-> value,
         policy_of |-> Computed(batch, model.params,
                          Append(tower.norm,
                                 BatchNormStatistics(model.policy_bn, training, batch))),
         value_of |-> Computed(batch, model.params,
                          Append(tower.norm,
                                 BatchNormStatistics(model.value_bn, training, batch))),
         flow |-> [path |-> flow.path, policy_from |-> flow.from,
                   value_from |-> flow.from, shapes |-> <<r0>> \o tower.ys],
         model |-> [model EXCEPT
                       !.initial_bn = BatchNormUpdate(@, c0, training, batch),
                       !.residual_blocks = tower.blocks,
                       !.policy_bn = BatchNormUpdate(@, pc, training, batch),
                       !.value_bn = BatchNormUpdate(@, vc, training, batch)]]

\* ------------------------------------------------------------ the network run
\* The value of `out` before the first call: call counts the forward calls made,
\* x and batch are the input of the latest, training the mode it ran in, raised
\* whether it raised, flow the order its blocks ran in.
NoCall == [call |-> 0, x |-> ErrorShape, batch |-> <<>>, training |-> FALSE,
           raised |-> FALSE, policy_logits |-> ErrorShape, value |-> ErrorShape,
           policy_of |-> <<>>, value_of |-> <<>>, values |-> <<>>, flow |-> <<>>]

\* The (num_blocks, num_filters) networks are constructed with: the smallest and
\* the largest of the small ones, and the default.
Configurations ==
    ({0, MaxBlocks} \X {1, MaxFilters}) \cup {<<DEFAULT_NUM_BLOCKS, DEFAULT_NUM_FILTERS>>}

\* model = ChessNet(num_blocks, num_filters)
NetInit ==
    /\ fen = EmptyFen
    /\ board = BoardFromFen(EmptyFen)
    /\ ply = 0
    /\ last = NoMove
    /\ encoded = NoArray
    /\ encPly = -1
    /\ board2 = NoBoard
    /\ encoded2 = NoArray
    /\ \E config \in Configurations : net = ChessNet(config[1], config[2])
    /\ out = NoCall
    /\ threads = NoThreads
    /\ before = NoOut
    /\ tensor = NoTensor
    /\ made = NotMade
    /\ resblock = NoBlock

\* model.eval()
Eval ==
    /\ net' = [net EXCEPT !.training = FALSE]
    /\ UNCHANGED <<fen, board, ply, last, encoded, encPly, board2, encoded2, out, threads, before, resblock, made,
                   tensor>>

\* model.train()
Train ==
    /\ net' = [net EXCEPT !.training = TRUE]
    /\ UNCHANGED <<fen, board, ply, last, encoded, encPly, board2, encoded2, out, threads, before, resblock, made,
                   tensor>>

\* The input batches of B positions, batch[i] naming the position in row i: B
\* copies of one position, or the positions 1, 2, ... in turn.
Batches(B) ==
    {[i \in 1..B |-> p] : p \in 1..MaxInputs}
    \cup {[i \in 1..B |-> ((i - 1) % MaxInputs) + 1]}

\* The inputs of shape [B, 18, 8, 8].
WellFormed ==
    UNION {{[x |-> <<B, NUM_CHANNELS, BOARD_SIZE, BOARD_SIZE>>, batch |-> batch] :
               batch \in Batches(B)} : B \in 1..MaxBatch}

\* policy_logits, value = model(x), for an input among `inputs`; the entries of x
\* are arbitrary real numbers.
Forward(inputs) ==
    /\ out.call < MaxCalls
    /\ \E input \in inputs :
          LET result == ChessNetForward(net, input.x, input.batch)
              raised == result.policy_logits = ErrorShape \/ result.value = ErrorShape
          IN  /\ out' = [call |-> out.call + 1, x |-> input.x, batch |-> input.batch,
                         training |-> net.training, raised |-> raised,
                         policy_logits |-> result.policy_logits,
                         value |-> result.value,
                         policy_of |-> IF raised THEN <<>> ELSE result.policy_of,
                         value_of |-> IF raised THEN <<>> ELSE result.value_of,
                         values |-> IF raised THEN <<>>
                                    ELSE ChessNetValues(net, AnyReal),
                         flow |-> IF raised THEN <<>> ELSE result.flow]
              /\ net' = result.model
    /\ UNCHANGED <<fen, board, ply, last, encoded, encPly, board2, encoded2, threads, resblock, made,
                   tensor>>

\* policy_logits, value = model(x), x of shape [B, 18, 8, 8].
ForwardCall == Forward(WellFormed) /\ UNCHANGED <<before, resblock>>

\* optimizer.step(): the external training procedure writes the parameters.
OptimizerStep ==
    /\ net.params < MaxSteps
    /\ net' = [net EXCEPT !.params = @ + 1]
    /\ UNCHANGED <<fen, board, ply, last, encoded, encPly, board2, encoded2, out, threads, before, resblock, made,
                   tensor>>

NetNext == Eval \/ Train \/ ForwardCall \/ OptimizerStep

NetSpec == NetInit /\ [][NetNext]_vars

\* ------------------------------------------- forward calls from several threads
\* The caller threads.
Threads == 1..MaxThreads

\* A thread that has made no call.
Idle == [pc |-> "idle", layer |-> 0, batch |-> <<>>, norm |-> <<>>,
         overlapped |-> FALSE, alone |-> <<>>, result |-> <<>>]

\* The normalization layers in the order forward reaches them; block 0 is the
\* network itself.
NormLayers(model) ==
    <<[block |-> 0, name |-> "initial_bn"]>>
    \o [k \in 1..(2 * Len(model.residual_blocks)) |->
           [block |-> (k + 1) \div 2, name |-> IF k % 2 = 1 THEN "bn1" ELSE "bn2"]]
    \o <<[block |-> 0, name |-> "policy_bn"], [block |-> 0, name |-> "value_bn"]>>

NormAt(model, layer) ==
    IF layer.block = 0 THEN model[layer.name]
    ELSE model.residual_blocks[layer.block][layer.name]

WithNorm(model, layer, bn) ==
    IF layer.block = 0 THEN [model EXCEPT ![layer.name] = bn]
    ELSE [model EXCEPT !.residual_blocks[layer.block][layer.name] = bn]

\* The two outputs of a call that read `norm` at the normalization layers: the
\* policy head does not pass the value head's layer, nor the value head the
\* policy head's.
Outputs(batch, weights, norm) ==
    LET n == Len(norm)
    IN  [policy_of |-> Computed(batch, weights, SubSeq(norm, 1, n - 1)),
         value_of |-> Computed(batch, weights, Append(SubSeq(norm, 1, n - 2), norm[n]))]

\* No call is in flight.
Quiescent == \A t \in Threads : threads[t].pc \in {"idle", "done"}

\* The networks the threads share: small ones, newly constructed or after one
\* forward call in training mode.
SharedConfigurations == (0..1) \X {1}

SharedNetworks ==
    {ChessNet(config[1], config[2]) : config \in SharedConfigurations}
    \cup {ChessNetForward(ChessNet(config[1], config[2]),
                          <<1, NUM_CHANNELS, BOARD_SIZE, BOARD_SIZE>>, <<1>>).model :
             config \in SharedConfigurations}

ConcInit ==
    /\ fen = EmptyFen
    /\ board = BoardFromFen(EmptyFen)
    /\ ply = 0
    /\ last = NoMove
    /\ encoded = NoArray
    /\ encPly = -1
    /\ board2 = NoBoard
    /\ encoded2 = NoArray
    /\ net \in SharedNetworks
    /\ out = NoCall
    /\ threads = [t \in Threads |-> Idle]
    /\ before = NoOut
    /\ tensor = NoTensor
    /\ made = NotMade
    /\ resblock = NoBlock

\* The position thread t evaluates.
PositionOf(t) == <<((t - 1) % MaxInputs) + 1>>

\* Thread t enters model(x) with its position; `alone` is what the call returns
\* when no other call runs.
Call(t) ==
    /\ threads[t].pc = "idle"
    /\ LET batch == PositionOf(t)
           x == <<1, NUM_CHANNELS, BOARD_SIZE, BOARD_SIZE>>
           result == ChessNetForward(net, x, batch)
       IN  threads' = [threads EXCEPT ![t] =
                  [Idle EXCEPT !.pc = "read", !.layer = 1, !.batch = batch,
                               !.alone = [policy_of |-> result.policy_of,
                                          value_of |-> result.value_of]]]
    /\ UNCHANGED <<fen, board, ply, last, encoded, encPly, board2, encoded2, net, out, before, resblock, made,
                   tensor>>

\* Where thread t stands after the normalization layer it is at: at the next
\* one, or returned from forward.
Advance(thread, norm, weights) ==
    IF thread.layer < Len(NormLayers(net))
    THEN [thread EXCEPT !.pc = "read", !.layer = @ + 1, !.norm = norm]
    ELSE [thread EXCEPT !.pc = "done", !.norm = norm,
                        !.result = Outputs(thread.batch, weights, norm)]

\* Whether another thread is inside forward.
OthersInFlight(t) == \E u \in Threads \ {t} : threads[u].pc = "read"

\* Thread t passes a normalization layer: it normalizes with what
\* BatchNormStatistics gives and the layer's buffers are written as
\* BatchNormUpdate says.
Normalize(t) ==
    LET thread == threads[t]
        layer == NormLayers(net)[thread.layer]
        bn == NormAt(net, layer)
        norm == Append(thread.norm, BatchNormStatistics(bn, net.training, thread.batch))
        shape == <<Len(thread.batch), bn.num_features, BOARD_SIZE, BOARD_SIZE>>
        seen == [thread EXCEPT !.overlapped = @ \/ OthersInFlight(t)]
    IN  /\ thread.pc = "read"
        /\ net' = WithNorm(net, layer,
                            BatchNormUpdate(bn, shape, net.training, thread.batch))
        /\ threads' = [threads EXCEPT ![t] = Advance(seen, norm, net.params)]
        /\ UNCHANGED <<fen, board, ply, last, encoded, encPly, board2, encoded2, out, before, resblock, made,
                   tensor>>

\* The mode is switched and the parameters are written only while no call is in
\* flight.
ConcNext ==
    \/ Quiescent /\ Eval
    \/ Quiescent /\ Train
    \/ Quiescent /\ OptimizerStep
    \/ \E t \in Threads : Call(t)
    \/ \E t \in Threads : Normalize(t)

ConcSpec == ConcInit /\ [][ConcNext]_vars

\* ------------------------------------------- a forward call and the one before
RepeatInit ==
    /\ fen = EmptyFen
    /\ board = BoardFromFen(EmptyFen)
    /\ ply = 0
    /\ last = NoMove
    /\ encoded = NoArray
    /\ encPly = -1
    /\ board2 = NoBoard
    /\ encoded2 = NoArray
    /\ net \in SharedNetworks
    /\ out = NoCall
    /\ threads = NoThreads
    /\ before = NoCall
    /\ tensor = NoTensor
    /\ made = NotMade
    /\ resblock = NoBlock

\* policy_logits, value = model(x) once more: `before` keeps what the call before
\* returned.
ForwardAgain == Forward(WellFormed) /\ before' = out /\ UNCHANGED resblock

RepeatNext == Eval \/ Train \/ OptimizerStep \/ ForwardAgain

RepeatSpec == RepeatInit /\ [][RepeatNext]_vars

\* The same networks and calls, the call before the latest not kept.
StableNext == Eval \/ Train \/ OptimizerStep \/ ForwardCall

StableSpec == RepeatInit /\ [][StableNext]_vars

\* ------------------------------------------------- inputs of any shape
\* Heights and widths of the inputs tried: 8x8, and others with 64 cells or not.
SpatialSizes == {<<8, 8>>, <<4, 16>>, <<16, 4>>, <<1, 64>>, <<7, 7>>, <<8, 9>>, <<1, 1>>}

\* Inputs of shape [B, C, H, W], 18 channels or one off.
AnyShape ==
    {[x |-> <<B, C, hw[1], hw[2]>>, batch |-> [i \in 1..B |-> 1]] :
        B \in 1..MaxBatch,
        C \in {NUM_CHANNELS - 1, NUM_CHANNELS, NUM_CHANNELS + 1},
        hw \in SpatialSizes}

\* policy_logits, value = model(x), x of any of these shapes.
ForwardAny == Forward(AnyShape) /\ UNCHANGED <<before, resblock>>

ShapeNext == Eval \/ Train \/ ForwardAny

ShapeSpec == NetInit /\ [][ShapeNext]_vars

\* ------------------------------------------------ a residual block on its own
\* resblock = ResidualBlock(num_filters): a new module is in training mode.
BlockInit ==
    /\ fen = EmptyFen
    /\ board = BoardFromFen(EmptyFen)
    /\ ply = 0
    /\ last = NoMove
    /\ encoded = NoArray
    /\ encPly = -1
    /\ board2 = NoBoard
    /\ encoded2 = NoArray
    /\ net = NoNet
    /\ out = NoOut
    /\ threads = NoThreads
    /\ before = NoOut
    /\ tensor = NoTensor
    /\ made = NotMade
    /\ \E num_filters \in (1..MaxFilters) \cup {DEFAULT_NUM_FILTERS} :
          resblock = [module |-> ResidualBlock(num_filters), training |-> TRUE,
                   call |-> 0, zeroed |-> FALSE, raised |-> FALSE,
                   x |-> ErrorShape, y |-> ErrorShape, values |-> <<>>]

\* The layer with all its parameters set to 0.0.
ZeroLayer(layer) == [layer EXCEPT !.weight = "zero"]

\* for param in block.parameters(): param.zero_()
ZeroParameters ==
    /\ resblock' = [resblock EXCEPT !.module = [conv1 |-> ZeroLayer(@.conv1),
                                          bn1 |-> ZeroLayer(@.bn1),
                                          conv2 |-> ZeroLayer(@.conv2),
                                          bn2 |-> ZeroLayer(@.bn2)]]
    /\ UNCHANGED <<fen, board, ply, last, encoded, encPly, board2, encoded2, net, out,
                   threads, before, made, tensor>>

\* block.eval()
BlockEval ==
    /\ resblock' = [resblock EXCEPT !.training = FALSE]
    /\ UNCHANGED <<fen, board, ply, last, encoded, encPly, board2, encoded2, net, out,
                   threads, before, made, tensor>>

\* Whether every parameter of the block is 0.0.
AllZero(module) ==
    \A layer \in {"conv1", "bn1", "conv2", "bn2"} : module[layer].weight = "zero"

\* output = block(x), x = X of shape [B, num_filters, 8, 8] with arbitrary real
\* entries.
BlockForward ==
    /\ resblock.call < MaxCalls
    /\ \E B \in 1..MaxBatch :
       \E batch \in Batches(B) :
          LET x == <<B, resblock.module.conv1.in_channels, BOARD_SIZE, BOARD_SIZE>>
              step == ResidualBlockForward(resblock.module, x, resblock.training, batch)
          IN  resblock' = [resblock EXCEPT
                           !.module = step.block,
                           !.call = @ + 1,
                           !.zeroed = AllZero(resblock.module),
                           !.raised = step.y = ErrorShape,
                           !.x = x,
                           !.y = step.y,
                           !.values = ResidualBlockValues(resblock.module, TheInput)]
    /\ UNCHANGED <<fen, board, ply, last, encoded, encPly, board2, encoded2, net, out,
                   threads, before, made, tensor>>

BlockNext == ZeroParameters \/ BlockEval \/ BlockForward

BlockSpec == BlockInit /\ [][BlockNext]_vars

\* ------------------------------------------------------------ construction
\* An argument of a constructor call: left out, or given as value.
Omitted == [given |-> FALSE, value |-> 0]
Given(value) == [given |-> TRUE, value |-> value]

\* The value a parameter takes: the argument, or the default when it is left out.
ArgValue(arg, default) == IF arg.given THEN arg.value ELSE default

\* The num_blocks and num_filters arguments tried, those below the documented
\* bounds included.
NumBlocksArgs == {Omitted} \cup {Given(n) : n \in (-1)..MaxBlocks}
NumFiltersArgs == {Omitted} \cup {Given(n) : n \in (-1)..MaxFilters}

\* Whether ChessNet.__init__ raises: it checks neither argument; nn.Conv2d raises
\* on a negative channel count when it allocates its weight, a count of 0 gives
\* empty weights, and range(num_blocks) is empty for a negative num_blocks.
ChessNetRaises(num_blocks, num_filters) == num_filters < 0

Devices == {"cpu", "cuda", "mps"}

\* A selection that prefers CUDA to MPS.
get_device_cuda_first(mps, cuda) == IF cuda THEN "cuda" ELSE IF mps THEN "mps" ELSE "cpu"

\* board_encoder.get_device, given what torch reports as available.
get_device(mps, cuda) == IF mps THEN "mps" ELSE IF cuda THEN "cuda" ELSE "cpu"

\* Whether tensors can be put on the device on this machine.
is_available(device, mps, cuda) ==
    device = "cpu" \/ (device = "mps" /\ mps) \/ (device = "cuda" /\ cuda)

\* model.to(device)
To(model, device) == [model EXCEPT !.device = device]

\* No network yet, on a machine with or without MPS and CUDA.
MakeInit ==
    /\ fen = EmptyFen
    /\ board = BoardFromFen(EmptyFen)
    /\ ply = 0
    /\ last = NoMove
    /\ encoded = NoArray
    /\ encPly = -1
    /\ board2 = NoBoard
    /\ encoded2 = NoArray
    /\ net = NoNet
    /\ out = NoCall
    /\ threads = NoThreads
    /\ before = NoOut
    /\ tensor = NoTensor
    /\ resblock = NoBlock
    /\ \E mps \in BOOLEAN, cuda \in BOOLEAN :
          made = [how |-> "none", mps |-> mps, cuda |-> cuda]

\* What `made` records of a constructor call: the arguments ("None" for no
\* device), the device the model was put on, whether the call raised; count is
\* what count_parameters() last returned (-1 before), moved whether
\* model.to(device) was called since.
Made(how, blocks_arg, filters_arg, device_arg, device, raised) ==
    [how |-> how, blocks_arg |-> blocks_arg, filters_arg |-> filters_arg,
     device_arg |-> device_arg, device |-> device, raised |-> raised,
     count |-> -1, moved |-> FALSE,
     mps |-> made.mps, cuda |-> made.cuda]

\* model = ChessNet(num_blocks, num_filters), either argument possibly left out.
Construct ==
    /\ made.how = "none"
    /\ \E blocks_arg \in NumBlocksArgs, filters_arg \in NumFiltersArgs :
          LET num_blocks == ArgValue(blocks_arg, DEFAULT_NUM_BLOCKS)
              num_filters == ArgValue(filters_arg, DEFAULT_NUM_FILTERS)
              raised == ChessNetRaises(num_blocks, num_filters)
          IN  /\ net' = IF raised THEN NoNet ELSE ChessNet(num_blocks, num_filters)
              /\ made' = Made("ChessNet", blocks_arg, filters_arg, "None", "cpu", raised)
    /\ UNCHANGED <<fen, board, ply, last, encoded, encPly, board2, encoded2, out,
                   threads, before, resblock, tensor>>

\* model = create_model(num_blocks, num_filters, device), device None or given.
CreateModel ==
    /\ made.how = "none"
    /\ \E blocks_arg \in NumBlocksArgs, filters_arg \in NumFiltersArgs,
          device_arg \in {"None"} \cup Devices :
          LET num_blocks == ArgValue(blocks_arg, DEFAULT_NUM_BLOCKS)
              num_filters == ArgValue(filters_arg, DEFAULT_NUM_FILTERS)
              device == IF device_arg = "None" THEN get_device(made.mps, made.cuda)
                        ELSE device_arg
              raised == \/ ChessNetRaises(num_blocks, num_filters)
                        \/ ~is_available(device, made.mps, made.cuda)
          IN  /\ net' = IF raised THEN NoNet
                        ELSE To(ChessNet(num_blocks, num_filters), device)
              /\ made' = Made("create_model", blocks_arg, filters_arg, device_arg,
                               device, raised)
    /\ UNCHANGED <<fen, board, ply, last, encoded, encPly, board2, encoded2, out,
                   threads, before, resblock, tensor>>

\* Whether a constructor call returned a network.
Constructed == made.how # "none" /\ ~made.raised

\* model.to(device); it raises, moving nothing, when the device is not available.
MoveTo ==
    /\ Constructed
    /\ \E device \in Devices :
          IF is_available(device, made.mps, made.cuda)
          THEN /\ net' = To(net, device)
               /\ made' = [made EXCEPT !.moved = TRUE]
          ELSE UNCHANGED <<net, made>>
    /\ UNCHANGED <<fen, board, ply, last, encoded, encPly, board2, encoded2, out,
                   threads, before, resblock, tensor>>

\* model.count_parameters()
CountParameters ==
    /\ Constructed
    /\ made' = [made EXCEPT !.count = count_parameters(net)]
    /\ UNCHANGED <<fen, board, ply, last, encoded, encPly, board2, encoded2, net, out,
                   threads, before, resblock, tensor>>

\* One encoded position, as a batch of one on the device of the model.
OnePosition ==
    {[x |-> <<1, NUM_CHANNELS, BOARD_SIZE, BOARD_SIZE>>, batch |-> <<1>>]}

\* policy_logits, value = model(x) on the constructed network.
ForwardMade == Constructed /\ Forward(OnePosition) /\ UNCHANGED <<before, resblock>>

MakeNext == Construct \/ CreateModel \/ MoveTo \/ CountParameters \/ ForwardMade

MakeSpec == MakeInit /\ [][MakeNext]_vars

\* ------------------------------------------------------ encode_board_tensor
\* The torch dtype of a tensor made from a numpy array of the dtype.
TorchDtype(dtype) ==
    CASE dtype = "float32" -> "torch.float32"
      [] dtype = "float64" -> "torch.float64"
      [] OTHER -> "none"

\* The shape of a three-dimensional array.
ShapeOf(data) ==
    <<Cardinality(DOMAIN data), Cardinality(DOMAIN data[0]), Cardinality(DOMAIN data[0][0])>>

\* torch.tensor(encoding.tolist()): the cells as Python floats, which torch
\* stores in its default dtype only if they came as such; kept as float64 here.
from_numpy_as_double(array) ==
    [dtype |-> "torch.float64", shape |-> ShapeOf(array.data), device |-> "cpu",
     data |-> array.data]

\* torch.from_numpy(encoding): a CPU tensor over the array's memory, of the
\* array's dtype and shape.
from_numpy(array) ==
    [dtype |-> TorchDtype(array.dtype), shape |-> ShapeOf(array.data), device |-> "cpu",
     data |-> array.data]

\* The positions encode_board_tensor is run from.
TensorFens == {KingsOnlyFen, EnPassantFen, LoneTargetFen}

TensorInit ==
    /\ InitBoard(TensorFens)
    /\ board2 = NoBoard
    /\ encoded2 = NoArray
    /\ net = NoNet
    /\ out = NoOut
    /\ threads = NoThreads
    /\ before = NoOut
    /\ made = NotMade
    /\ resblock = NoBlock
    /\ tensor = NoTensor

\* tensor = encode_board_tensor(board, device), on a machine with or without MPS
\* and CUDA; tensor.to(device) raises when the device is not available.
EncodeTensor ==
    /\ \E device \in Devices, mps \in BOOLEAN, cuda \in BOOLEAN :
          LET encoding == encode_board(board)
              cpu_tensor == from_numpy(encoding)
              raised == ~is_available(device, mps, cuda)
          IN  tensor' = [of |-> "encode_board_tensor", ply |-> ply, device_arg |-> device,
                         raised |-> raised,
                         value |-> IF raised THEN NoTensor ELSE To(cpu_tensor, device)]
    /\ UNCHANGED <<fen, board, ply, last, encoded, encPly, board2, encoded2, net, out,
                   threads, before, resblock, made>>

TensorNext == Push \/ EncodeTensor

TensorSpec == TensorInit /\ [][TensorNext]_vars

\* ================================================================ claims
OnesPlane == [rank \in 0..7 |-> [file \in 0..7 |-> 1]]
ZeroPlane == [rank \in 0..7 |-> [file \in 0..7 |-> 0]]
FilePlane(file) == [rank \in 0..7 |-> [f \in 0..7 |-> IF f = file THEN 1 ELSE 0]]
OnesRow == [file \in 0..7 |-> 1]
ZeroRow == [file \in 0..7 |-> 0]
\* A row written out from file a to file h.
Row(cells) == [file \in 0..7 |-> cells[file + 1]]

\* C1: every array encode_board returns is float32, of shape 18 x 8 x 8, with
\* every cell 0 or 1.
C1_ShapeAndBinary ==
    encoded # NoArray =>
        /\ encoded.dtype = "float32"
        /\ DOMAIN encoded.data = 0..17
        /\ \A channel \in 0..17 :
              /\ DOMAIN encoded.data[channel] = 0..7
              /\ \A rank \in 0..7 :
                    /\ DOMAIN encoded.data[channel][rank] = 0..7
                    /\ \A file \in 0..7 : encoded.data[channel][rank][file] \in {0, 1}

\* An encoded position with an en-passant target and some, not all, castling rights.
C1_Witness ==
    /\ fresh
    /\ board.ep_square # NoSquare
    /\ Cardinality(CastlingHeld(board)) \in 1..3

\* C2: a board reached by moves and a board built from a FEN that agree on pieces,
\* side to move, castling permissions and en-passant target have the same encoding,
\* whatever calls came before.
C2_Pure ==
    (fresh /\ encoded2 # NoArray /\ SamePosition(board, board2)) => encoded = encoded2

\* Both boards encoded, one after moves and one straight from a FEN, agreeing as
\* positions while their stored castling bits differ.
C2_Witness ==
    /\ fresh
    /\ ply >= 1
    /\ encoded2 # NoArray
    /\ SamePosition(board, board2)
    /\ board.castling_rights # board2.castling_rights

\* C3: in planes 0-11 the cell [channel, s div 8, s mod 8] is 1 exactly when square
\* s holds the piece of that channel (band 0 White, 6 Black, kind = piece_type - 1),
\* so the set cells are as many as the occupied squares.
C3_PiecePlanes ==
    fresh =>
        /\ \A s \in SQUARES : \A channel \in 0..11 :
              (encoded.data[channel][s \div 8][s % 8] = 1)
                  <=> /\ board.pieces[s] # NoPiece
                      /\ channel = (IF board.pieces[s].color = WHITE THEN 0 ELSE 6)
                                      + (board.pieces[s].piece_type - 1)
        /\ Cardinality({cs \in (0..11) \X SQUARES :
                            encoded.data[cs[1]][cs[2] \div 8][cs[2] % 8] = 1})
              = Cardinality({s \in SQUARES : board.pieces[s] # NoPiece})

\* An encoded position holding a piece that a pawn was just promoted to.
C3_Witness ==
    /\ fresh
    /\ last.move.promotion # 0
    /\ board.pieces[last.move.to_square].piece_type = last.move.promotion

\* C4 as claimed: after a double step marked plane 17, every following move that
\* is not an en-passant capture leaves plane 17 all 0.
C4_Original ==
    (fresh /\ ply >= 2 /\ last.ep_before # NoSquare /\ last.kind # "en_passant")
        => encoded.data[EN_PASSANT_CHANNEL] = ZeroPlane

\* C4 amended: after plane 17 was marked, every following move that is neither an
\* en-passant capture nor itself a double-step pawn move leaves plane 17 all 0.
C4_ClearedByOtherMove ==
    (fresh /\ ply >= 1 /\ last.ep_before # NoSquare /\ last.kind = "other")
        => encoded.data[EN_PASSANT_CHANNEL] = ZeroPlane

\* The position after a double step and an ordinary reply, encoded.
C4_Witness ==
    /\ fresh
    /\ ply >= 2
    /\ last.ep_before # NoSquare
    /\ last.kind = "other"

\* C5: plane 17 is the file of the en-passant target when the position has one,
\* whether or not a capture is possible, and all 0 when it has none; right after a
\* double step that file is the moved pawn's.
C5_EnPassantFile ==
    fresh =>
        /\ board.ep_square # NoSquare
              => encoded.data[EN_PASSANT_CHANNEL] = FilePlane(board.ep_square % 8)
        /\ board.ep_square = NoSquare
              => encoded.data[EN_PASSANT_CHANNEL] = ZeroPlane
        /\ last.kind = "double_step"
              => encoded.data[EN_PASSANT_CHANNEL] = FilePlane(last.move.to_square % 8)

\* The position right after a double step that no pawn can capture en passant.
C5_Witness ==
    /\ fresh
    /\ last.kind = "double_step"
    /\ \A move \in pseudo_legal_moves(board) : ~IsEnPassant(board, move)

\* The castling permissions a move took away.
LostRights == last.rights_before \ CastlingHeld(board)

\* C6: each of planes 13-16 is all 1 when its castling permission is held and all
\* 0 when not; encoding before and after a move that loses exactly one permission,
\* that plane goes from all 1 to all 0 and the other three planes stay as they were.
C6_CastlingPlanes ==
    /\ [](fresh => \A channel \in 13..16 :
                      encoded.data[channel] =
                          IF channel \in CastlingHeld(board) THEN OnesPlane ELSE ZeroPlane)
    /\ [][(/\ encPly = ply - 1
           /\ encPly' = ply'
           /\ Cardinality(LostRights) = 1)
          => \A channel \in 13..16 :
                IF channel \in LostRights
                THEN encoded.data[channel] = OnesPlane /\ encoded'.data[channel] = ZeroPlane
                ELSE encoded'.data[channel] = encoded.data[channel]]_vars

\* Encoded before and after a move that lost exactly one of four held permissions.
C6_Witness ==
    /\ fresh
    /\ Cardinality(last.rights_before) = 4
    /\ Cardinality(LostRights) = 1

\* C7: plane 12 is all 1 when White is to move and all 0 when Black is; from the
\* starting position it is all 1 after an even number of plies, all 0 after an odd.
C7_SideToMove ==
    fresh =>
        /\ encoded.data[SIDE_TO_MOVE_CHANNEL] =
              IF board.turn = WHITE THEN OnesPlane ELSE ZeroPlane
        /\ fen = StartingFen
              => encoded.data[SIDE_TO_MOVE_CHANNEL] =
                    IF ply % 2 = 0 THEN OnesPlane ELSE ZeroPlane

\* The position after a move and its reply from the starting position, encoded.
C7_Witness ==
    /\ fresh
    /\ fen = StartingFen
    /\ ply = 2

\* C8: the starting position encodes to 32 set cells in planes 0-11 (White pawns on
\* row 1, Black pawns on row 6, the back ranks on rows 0 and 7), plane 12 all 1,
\* planes 13-16 all 1 and plane 17 all 0.
C8_StartingPosition ==
    (fresh /\ fen = StartingFen /\ ply = 0) =>
        /\ Cardinality({crf \in (0..11) \X (0..7) \X (0..7) :
                            encoded.data[crf[1]][crf[2]][crf[3]] = 1}) = 32
        /\ encoded.data[0] = [rank \in 0..7 |-> IF rank = 1 THEN OnesRow ELSE ZeroRow]
        /\ encoded.data[6] = [rank \in 0..7 |-> IF rank = 6 THEN OnesRow ELSE ZeroRow]
        /\ \A band \in {0, 6} :
              LET row == IF band = 0 THEN 0 ELSE 7
              IN  /\ encoded.data[band + 1][row] = Row(<<0, 1, 0, 0, 0, 0, 1, 0>>)
                  /\ encoded.data[band + 2][row] = Row(<<0, 0, 1, 0, 0, 1, 0, 0>>)
                  /\ encoded.data[band + 3][row] = Row(<<1, 0, 0, 0, 0, 0, 0, 1>>)
                  /\ encoded.data[band + 4][row] = Row(<<0, 0, 0, 1, 0, 0, 0, 0>>)
                  /\ encoded.data[band + 5][row] = Row(<<0, 0, 0, 0, 1, 0, 0, 0>>)
        /\ \A channel \in 12..16 : encoded.data[channel] = OnesPlane
        /\ encoded.data[EN_PASSANT_CHANNEL] = ZeroPlane

\* The starting position, encoded before any move.
C8_Witness ==
    /\ fresh
    /\ fen = StartingFen
    /\ ply = 0

\* C9: every forward call on an input of shape [B, 18, 8, 8] returns policy logits
\* of shape [B, 4096] and a value of shape [B, 1], for every B and configuration.
C9_OutputShapes ==
    out.call > 0 =>
        /\ ~out.raised
        /\ out.policy_logits = <<out.x[1], 4096>>
        /\ out.value = <<out.x[1], 1>>

\* A forward call on a single position by a network with no residual block, in
\* training mode.
C9_Witness ==
    /\ out.call > 0
    /\ out.x[1] = 1
    /\ net.num_blocks = 0
    /\ out.training

\* C10 as claimed: a forward call leaves everything the network holds as it was.
C10_Original == [][out'.call # out.call => net' = net]_vars

\* C10 amended: a forward call never writes the parameters, and in inference mode
\* (after model.eval()) it leaves everything the network holds as it was; in
\* training mode it writes the normalization layers' running statistics.
C10_EvalForwardFrame ==
    [][out'.call # out.call =>
          /\ net'.params = net.params
          /\ ~net.training => net' = net
          /\ (net.training /\ ~out'.raised) =>
                /\ net'.initial_bn.num_batches_tracked = net.initial_bn.num_batches_tracked + 1
                /\ net' # net]_vars

\* A forward call made in inference mode on a network whose running statistics
\* earlier training-mode calls wrote.
C10_Witness ==
    /\ out.call = 2
    /\ ~out.training
    /\ ~out.raised
    /\ net.initial_bn.num_batches_tracked = 1
    /\ net.num_blocks > 0

BothInference ==
    /\ out.call >= 2
    /\ ~out.training /\ ~before.training
    /\ ~out.raised /\ ~before.raised
    /\ out.policy_of.weights = before.policy_of.weights

\* C12: in inference mode, a forward call on the input batch of the call before
\* returns the policy logits and value that call returned.
C12_Deterministic ==
    (BothInference /\ out.x = before.x /\ out.batch = before.batch) =>
        /\ out.policy_logits = before.policy_logits
        /\ out.value = before.value
        /\ out.policy_of = before.policy_of
        /\ out.value_of = before.value_of

\* The same two positions evaluated twice in inference mode by a network with a
\* residual block whose running statistics a training-mode call wrote.
C12_Witness ==
    /\ BothInference
    /\ out.batch = before.batch
    /\ Len(out.batch) = 2
    /\ net.num_blocks = 1
    /\ net.initial_bn.num_batches_tracked = 1

\* Row i of an output: what the policy logits and the value of position i are
\* computed from.
ElementOf(computed, i) == [computed EXCEPT !.input = computed.input[i]]

SameElement(a, i, b, j) ==
    /\ ElementOf(a.policy_of, i) = ElementOf(b.policy_of, j)
    /\ ElementOf(a.value_of, i) = ElementOf(b.value_of, j)

\* C13: in inference mode the rows of one batch that hold the same position get
\* the same (policy, value), and a position gets the same (policy, value) in the
\* latest call as in the call before, whatever the sizes of the two batches.
C13_BatchInvariant ==
    /\ (out.call >= 1 /\ ~out.training /\ ~out.raised) =>
          \A i, j \in DOMAIN out.batch :
              out.batch[i] = out.batch[j] => SameElement(out, i, out, j)
    /\ BothInference =>
          \A i \in DOMAIN out.batch, j \in DOMAIN before.batch :
              out.batch[i] = before.batch[j] => SameElement(out, i, before, j)

\* A position evaluated alone, then in the second row of a batch of two different
\* positions, in inference mode.
C13_Witness ==
    /\ BothInference
    /\ Len(before.batch) = 1
    /\ Len(out.batch) = 2
    /\ out.batch[2] = before.batch[1]
    /\ out.batch[1] # out.batch[2]
    /\ net.initial_bn.num_batches_tracked = 1

\* C14: a forward call on an input whose channel count is not 18 or whose height
\* and width are not 8 and 8 raises a shape error and returns no result.
C14_ShapeMismatchRaises ==
    (out.call > 0 /\ (out.x[2] # NUM_CHANNELS \/ out.x[3] # BOARD_SIZE \/ out.x[4] # BOARD_SIZE))
        => out.raised

\* C15: the value a forward call returns lies in [-1, 1], for every input of shape
\* [B, 18, 8, 8] with arbitrary real entries, in training and in inference mode.
C15_ValueRange ==
    (out.call > 0 /\ ~out.raised) => out.values.value \in {Unit, ZeroOne, Zeros}

\* The default network has evaluated a batch of two in training mode and returned
\* values in [-1, 1].
C15_Witness ==
    /\ out.call > 0
    /\ ~out.raised
    /\ out.training
    /\ Len(out.batch) = 2
    /\ net.num_blocks = DEFAULT_NUM_BLOCKS
    /\ out.values.value = Unit

\* C16: a residual block whose parameters are all 0.0 returns relu(X), of the
\* shape of X, for every input X of shape [B, F, 8, 8].
C16_ZeroBlockRectifies ==
    (resblock.call > 0 /\ resblock.zeroed) =>
        /\ ~resblock.raised
        /\ resblock.y = resblock.x
        /\ resblock.values = ReluOfInput

\* A zeroed block of 128 filters has been called on one position in training mode,
\* as the test does, and then again in inference mode.
C16_Witness ==
    /\ resblock.call = 2
    /\ resblock.zeroed
    /\ ~resblock.training
    /\ resblock.x = <<1, DEFAULT_NUM_FILTERS, BOARD_SIZE, BOARD_SIZE>>
    /\ resblock.module.bn1.num_batches_tracked = 1

\* F.softmax(policy_logits, dim=1), applied by the caller: defined on rows of
\* real numbers, with entries in [0, 1].
SoftmaxValues(v) ==
    IF v \in {Zeros, AnyReal, NonNegative, Unit, ZeroOne} THEN ZeroOne ELSE v

CountOf(num_blocks, num_filters) == count_parameters(ChessNet(num_blocks, num_filters))

\* C18: count_parameters() is strictly increasing in num_blocks for fixed
\* num_filters and in num_filters for fixed num_blocks: whenever it has returned a
\* count for a network of num_blocks >= 0 and num_filters >= 1, that count is
\* below the count of every network with more blocks and as many filters, and
\* of every network with more filters and as many blocks.
C18_CountIncreasing ==
    (Constructed /\ made.count >= 0 /\ net.num_blocks >= 0 /\ net.num_filters >= 1) =>
        /\ \A more \in 1..MaxBlocks :
              made.count < CountOf(net.num_blocks + more, net.num_filters)
        /\ \A more \in 1..MaxFilters :
              made.count < CountOf(net.num_blocks, net.num_filters + more)

\* count_parameters() has returned 2,339,207 for the default network.
C18_Witness ==
    /\ Constructed
    /\ net.num_blocks = DEFAULT_NUM_BLOCKS
    /\ net.num_filters = DEFAULT_NUM_FILTERS
    /\ made.count = 2339207

\* Whether the block's layers all have num_filters channels.
BlockOfWidth(block, num_filters) ==
    /\ block.conv1.in_channels = num_filters
    /\ block.conv1.out_channels = num_filters
    /\ block.bn1.num_features = num_filters
    /\ block.conv2.in_channels = num_filters
    /\ block.conv2.out_channels = num_filters
    /\ block.bn2.num_features = num_filters

C20_BoundsEnforced ==
    (/\ made.how # "none"
     /\ \/ ArgValue(made.blocks_arg, DEFAULT_NUM_BLOCKS) < 0
        \/ ArgValue(made.filters_arg, DEFAULT_NUM_FILTERS) < 1)
        => made.raised /\ net = NoNet

\* C21: the default network made by create_model() reports
\* count_parameters() == 2,003,010.
C21_DefaultCount ==
    (/\ Constructed
     /\ made.how = "create_model"
     /\ ~made.blocks_arg.given
     /\ ~made.filters_arg.given
     /\ made.count >= 0) => made.count = 2003010

\* C22: the model create_model returns is on the device it was given, and when
\* given None on MPS if MPS is available, else on CUDA if CUDA is available,
\* else on the CPU.
C22_DevicePriority ==
    (Constructed /\ made.how = "create_model" /\ ~made.moved) =>
        IF made.device_arg # "None" THEN net.device = made.device_arg
        ELSE /\ made.mps => net.device = "mps"
             /\ (~made.mps /\ made.cuda) => net.device = "cuda"
             /\ (~made.mps /\ ~made.cuda) => net.device = "cpu"

\* create_model() was given no device where both MPS and CUDA are available.
C22_Witness ==
    /\ Constructed
    /\ made.how = "create_model"
    /\ made.device_arg = "None"
    /\ made.mps
    /\ made.cuda
    /\ net.device = "mps"

\* C23: encode_board_tensor is pure delegation: the tensor it returns for a
\* position and an available device is float32, of shape [18, 8, 8], on that
\* device, and each of its cells is the cell of encode_board(position).
C23_TensorDelegates ==
    (tensor.of = "encode_board_tensor" /\ tensor.ply = ply /\ ~tensor.raised) =>
        /\ tensor.value.dtype = "torch.float32"
        /\ tensor.value.shape = <<18, 8, 8>>
        /\ tensor.value.device = tensor.device_arg
        /\ tensor.value.data = encode_board(board).data

\* A tensor on an accelerator for a moved board with an en-passant target.
C23_Witness ==
    /\ tensor.of = "encode_board_tensor"
    /\ tensor.ply = ply
    /\ ply > 0
    /\ ~tensor.raised
    /\ tensor.value.device = "mps"
    /\ board.ep_square # NoSquare

\* What an inference-mode evaluation of the input returns on the network as it
\* stands: the outputs and what they are computed from.
InferenceResult(model, input) ==
    LET result == ChessNetForward([model EXCEPT !.training = FALSE], input.x, input.batch)
    IN  <<result.policy_logits, result.value, result.policy_of, result.value_of>>

\* The inputs x whose inference-mode evaluation is watched: the single positions
\* and the largest batches.
Watched == {input \in WellFormed : Len(input.batch) \in {1, MaxBatch}}

\* A step that is a forward call made in training mode.
TrainingForward == out'.call # out.call /\ net.training

\* C24 as claimed: unless the parameters are written, no step, a training-mode
\* forward call included, changes what an inference-mode evaluation of any input
\* returns.
C24_Original ==
    [][net'.params = net.params =>
          \A input \in Watched :
              InferenceResult(net', input) = InferenceResult(net, input)]_vars

\* C24 amended: unless the parameters are written, no inference-mode forward call
\* and no mode switch changes what an inference-mode evaluation of any input
\* returns; a training-mode forward call that returns rewrites the running
\* statistics every later inference-mode evaluation is computed from.
C24_InferenceStable ==
    [][/\ (net'.params = net.params /\ ~TrainingForward) =>
              \A input \in Watched :
                  InferenceResult(net', input) = InferenceResult(net, input)
       /\ (TrainingForward /\ ~out'.raised) =>
              \A input \in Watched :
                  InferenceResult(net', input) # InferenceResult(net, input)]_vars

\* A second inference-mode call has returned on a one-block network whose running
\* statistics one training-mode call wrote before.
C24_Witness ==
    /\ out.call >= 2
    /\ ~out.training
    /\ ~out.raised
    /\ Len(out.batch) = 2
    /\ net.initial_bn.num_batches_tracked = 1
    /\ net.num_blocks = 1

\* The planes 0-11 set at the cell of a square.
PlanesSetAt(encoding, s) ==
    {channel \in 0..11 : encoding.data[channel][s \div 8][s % 8] = 1}

\* The piece read back from the cell of a square: planes 0-5 are White's pawn to
\* king, planes 6-11 Black's.
DecodedPiece(encoding, s) ==
    LET set == PlanesSetAt(encoding, s)
    IN  IF set = {} THEN NoPiece
        ELSE LET channel == CHOOSE c \in set : TRUE
             IN  IF channel < 6 THEN Piece(channel + 1, WHITE)
                 ELSE Piece(channel - 5, BLACK)

\* The files marked in plane 17.
DecodedEpFiles(encoding) == {file \in 0..7 : encoding.data[17][0][file] = 1}

\* The file of the en-passant target, none when there is no target.
EpFiles(b) == IF b.ep_square = NoSquare THEN {} ELSE {b.ep_square % 8}

\* C25: the encoder is injective on the pieces, the side to move, the four
\* castling permissions and the en-passant file: each of them is read back from
\* the tensor of every position, so two positions that differ in one of them
\* never get the same tensor.
C25_Injective ==
    fresh =>
        /\ \A s \in SQUARES :
              /\ Cardinality(PlanesSetAt(encoded, s)) <= 1
              /\ DecodedPiece(encoded, s) = piece_at(board, s)
        /\ (encoded.data[12][0][0] = 1) = (board.turn = WHITE)
        /\ {channel \in 13..16 : encoded.data[channel][0][0] = 1} = CastlingHeld(board)
        /\ DecodedEpFiles(encoded) = EpFiles(board)

\* The encoding of a moved board with pieces of both sides, an en-passant target
\* and some, not all, castling permissions.
C25_Witness ==
    /\ fresh
    /\ ply > 0
    /\ board.ep_square # NoSquare
    /\ Cardinality(CastlingHeld(board)) \in 1..3
    /\ \E s \in SQUARES : piece_at(board, s) = Piece(PAWN, BLACK)

\* Both boards have been encoded as they stand.
BothEncoded == fresh /\ encoded2 # NoArray

\* The two boards agree on the side to move, the four castling permissions and
\* the en-passant target.
SameRest == 
    /\ board.turn = board2.turn
    /\ CastlingHeld(board) = CastlingHeld(board2)
    /\ board.ep_square = board2.ep_square

\* The two boards agree on the piece of every square.
SamePlacement == \A s \in SQUARES : piece_at(board, s) = piece_at(board2, s)

\* C26: planes 12-17 are independent of piece placement and planes 0-11 of
\* everything else: two encoded positions with the same side to move, castling
\* permissions and en-passant target have equal planes 12-17 whatever their
\* pieces, and two with the same piece placement have equal planes 0-11.
C26_PlanesIndependent ==
    BothEncoded =>
        /\ SameRest => \A channel \in 12..17 : encoded.data[channel] = encoded2.data[channel]
        /\ SamePlacement => \A channel \in 0..11 : encoded.data[channel] = encoded2.data[channel]

\* Two encoded positions that differ in their pieces only, with an en-passant
\* target.
C26_Witness ==
    /\ BothEncoded
    /\ SameRest
    /\ ~SamePlacement
    /\ board.ep_square # NoSquare

\* Two encoded positions with the same pieces and not the same rest.
SamePlacementReached == BothEncoded /\ SamePlacement /\ ~SameRest

\* Two encoded positions whose stored castling bits, side to move and target
\* agree while the rook that backs the permission stands on one board only.
UnbackedReached ==
    /\ BothEncoded
    /\ board.castling_rights = board2.castling_rights
    /\ board.castling_rights # {}
    /\ board.turn = board2.turn
    /\ board.ep_square = board2.ep_square
    /\ encoded.data[13] # encoded2.data[13]

\* C27: in every forward call that returns, the residual blocks run in index
\* order 0 .. N-1, each once, block 0 on the output of the input projection and
\* every other block on the output of the block before it, and both heads read
\* the output of block N-1 (of the input projection when N = 0).
C27_StrictSequence ==
    (out.call > 0 /\ ~out.raised) =>
        LET N == Len(net.residual_blocks)
        IN  /\ Len(out.flow.path) = N
            /\ \A k \in 1..N :
                  /\ out.flow.path[k].block = k - 1
                  /\ out.flow.path[k].input = (IF k = 1 THEN Projection ELSE k - 2)
            /\ out.flow.policy_from = (IF N = 0 THEN Projection ELSE N - 1)
            /\ out.flow.value_from = (IF N = 0 THEN Projection ELSE N - 1)

\* A forward call has returned on the default six-block network.
C27_Witness ==
    /\ out.call > 0
    /\ ~out.raised
    /\ Len(net.residual_blocks) = DEFAULT_NUM_BLOCKS
    /\ Len(out.flow.path) = DEFAULT_NUM_BLOCKS

\* C28: the trunk activation has shape [B, F, 8, 8] after the input projection
\* and after every residual block: every forward call on an input [B, 18, 8, 8]
\* returns, and each of its N + 1 trunk activations has that shape, B the batch
\* size of the input and F the num_filters of the network.
C28_TrunkShape ==
    out.call > 0 =>
        /\ ~out.raised
        /\ Len(out.flow.shapes) = Len(net.residual_blocks) + 1
        /\ \A k \in 1..Len(out.flow.shapes) :
              out.flow.shapes[k] = <<out.x[1], net.num_filters, 8, 8>>

\* A batch of two through a network of two blocks and two filters, in training
\* mode.
C28_Witness ==
    /\ out.call > 0
    /\ out.training
    /\ out.x[1] = 2
    /\ net.num_filters = 2
    /\ Len(out.flow.shapes) = 3

\* The value ranges with no negative number in them.
NonNegativeRanges == {Zeros, ReluOfInput, NonNegative, ZeroOne}

\* C29: every element of the trunk activation is >= 0 at every stage: in every
\* forward call that returns, the output of the input projection and the output
\* of every residual block hold no negative number, whatever the real entries
\* of the input and of the weights.
C29_TrunkNonNegative ==
    (out.call > 0 /\ ~out.raised) =>
        /\ Len(out.values.trunk) = Len(net.residual_blocks) + 1
        /\ \A k \in 1..Len(out.values.trunk) : out.values.trunk[k] \in NonNegativeRanges

\* A forward call has returned on a trained network with residual blocks, in
\* inference mode.
C29_Witness ==
    /\ out.call > 0
    /\ ~out.raised
    /\ ~out.training
    /\ net.params > 0
    /\ Len(out.values.trunk) = MaxBlocks + 1

====
